---- MODULE Spec2Model ----
(***************************************************************************)
(* A model of srclib's command-line client:                                *)
(*   - listRepoDependencies (src/src/query_cmd.go), the dependency         *)
(*     resolver used by `src query`;                                       *)
(*   - defXRefsIndex (src/store/def_xrefs_index.go), the reference index.  *)
(* Each component has its own specification (SpecDeps, SpecIndex); the     *)
(* variables of the other component stay at their initial value.           *)
(***************************************************************************)
EXTENDS Integers, Sequences, FiniteSets, TLC

VARIABLES
    \* ---- listRepoDependencies ----
    pc,                 \* position in listRepoDependencies
    repo,               \* the *Repo argument (openCurrentRepo's result)
    uri,                \* the uri argument
    depTargets,         \* map[dep.ResolvedTarget]struct{}
    exists,             \* BuildDataExistsForCommit's answer
    hasDepResolveFile,  \* local flag of the walk loop
    commitFS,           \* files of the commit's build data the walk has visited
    commitID,           \* the remote commit chosen after GetBuild
    calls,              \* remote calls issued so far, in order
    b,                  \* GetBuild's answer ({} before the call)
    deps,               \* ListDependencies' answer
    ret,                \* returned map (isNil: a nil map)
    err,                \* returned error
    \* ---- defXRefsIndex ----
    phtable,            \* x.phtable: the refs held by the table (nil = empty)
    ready,              \* x.ready
    xCall,              \* the last Build/Update call: op, refs, returned error
    xRepeat,            \* the last call repeats the one before it (same op, same refs)
    \* ---- src delta defs|authors|clients|refs ----
    dPc,                \* position in the subcommand's Execute
    dCmd,               \* the subcommand
    dStat,              \* DeltaDefsCmd.Stat
    dBase,              \* the Defs of the base commit, by key
    dHead,              \* the Defs of the head commit, by key
    dDefs,              \* Deltas.ListDefs' answer
    dPeople,            \* Deltas.ListAffectedAuthors' / ListAffectedClients' answer
    dRepos,             \* Deltas.ListAffectedDependents' answer
    dOut,               \* lines printed on standard output, in order
    dErr,               \* Execute's returned error
    dFail,              \* the error of the call that failed, "nil" when none did
    \* ---- query ----
    qPc,                \* position in query
    qOpt,               \* the QueryCmd flags query reads: Def, Authors, Refs, Terse
    qDefs,              \* res.Defs, the Search result
    qI,                 \* index of the def the loop is at
    qSeen,              \* the seen map (its keys)
    qOut,               \* what query printed and logged, in order
    qRet,               \* query's return value ("none" before it returns)
    qFailed,            \* the fetches that failed: <<index of the def, fetch>>
    \* ---- QueryCmd.Execute: the completion candidates ----
    comps,              \* the candidates collected so far
    compsMu,            \* the mutex: "free", or the goroutine that holds it
    sPc,                \* position of each sender on compc (main and the workers)
    sQueue,             \* the values each sender has still to send
    colPc,              \* position of the collector goroutine
    comp,               \* the value the collector received last
    cplPc,              \* position of the Completer callback
    cplQuery,           \* the query of the Completer call under way
    cplK,               \* index of the candidate the Completer's loop is at
    matches,            \* the Completer's matches so far
    recvd,              \* the values received from compc, in order
    cplLast,            \* per query, the matches the last Completer call returned
    \* ---- QueryCmd.Execute: the interactive shell ----
    mPc,                \* the main goroutine: "select", "returned", "exited"
    mRet,               \* Execute's return value ("none" before it returns)
    rPc,                \* the reading goroutine: "read", "query", "senderr", "done"
    rErr,               \* the error the reading goroutine sends on errc
    sigint,             \* signals buffered in the sigint channel (0 or 1)
    done,               \* the done channel is closed
    history,            \* the lines given to readline.AddHistory, each then queried
    intr,               \* what was the case when the first SIGINT arrived
    \* ---- QueryCmd.Execute: scope and commit of the search ----
    ePc,                \* position in Execute
    eRepo,              \* openCurrentRepo()'s answer
    eOpt,               \* c.RepoURI, c.CommitID and c.AddDeps
    eTargets,           \* the depTargets the range loop has still to visit
    seenDepURI,         \* the seenDepURI map (its keys)
    repoAndDepURIs,     \* the scope of the search
    eCommitID,          \* commitID, the commit to search
    eBuild,             \* GetBuild's answer ({} before the call)
    queryConstraints,   \* one entry per "repo:..." word of the constraints
    eSearches,          \* the constraints of the Search calls made
    eRet                \* Execute's return value ("none" before it returns)

depVars == <<pc, repo, uri, depTargets, exists, hasDepResolveFile, commitFS, commitID,
             calls, b, deps, ret, err>>
idxVars == <<phtable, ready, xCall, xRepeat>>
deltaVars == <<dPc, dCmd, dStat, dBase, dHead, dDefs, dPeople, dRepos, dOut, dErr, dFail>>
queryVars == <<qPc, qOpt, qDefs, qI, qSeen, qOut, qRet, qFailed>>
compVars == <<comps, compsMu, sPc, sQueue, colPc, comp, cplPc, cplQuery, cplK, matches,
              recvd, cplLast>>
shellVars == <<mPc, mRet, rPc, rErr, sigint, done, history, intr>>
execVars == <<ePc, eRepo, eOpt, eTargets, seenDepURI, repoAndDepURIs, eCommitID, eBuild,
              queryConstraints, eSearches, eRet>>
vars == <<depVars, idxVars, deltaVars, queryVars, compVars, shellVars, execVars>>

\* What each component's steps leave alone.
notDepVars == <<idxVars, deltaVars, queryVars, compVars, shellVars, execVars>>
notIdxVars == <<depVars, deltaVars, queryVars, compVars, shellVars, execVars>>
notDeltaVars == <<depVars, idxVars, queryVars, compVars, shellVars, execVars>>
notQueryVars == <<depVars, idxVars, deltaVars, compVars, shellVars, execVars>>
notCompVars == <<depVars, idxVars, deltaVars, queryVars, shellVars, execVars>>
notShellVars == <<depVars, idxVars, deltaVars, queryVars, compVars, execVars>>
notExecVars == <<depVars, idxVars, deltaVars, queryVars, compVars, shellVars>>

----------------------------------------------------------------------------
\* Bounds of the model.
MaxFiles == 2       \* files visited by one walk of the commit's build data
MaxRecs == 1        \* Resolution records in one dependency-resolution file
MaxRemote == 3      \* records in one ListDependencies answer
MaxRefs == 2        \* refs passed to one Build/Update call
MaxPeople == 1      \* persons in one affected-authors / affected-clients answer
MaxDefRefs == 2     \* affected defs listed for one dependent repository
MaxSites == 2       \* reference sites listed for one affected def
MaxDefs == 2        \* defs in one Search result
MaxShown == 2       \* the largest --refs value given to query
MaxLines == 2       \* lines the shell queries in one session

----------------------------------------------------------------------------
\* Sequences over S of length at most n.
SeqUpTo(S, n) == UNION {[1..k -> S] : k \in 0..n}

Range(s) == {s[i] : i \in 1..Len(s)}

----------------------------------------------------------------------------
(***************************************************************************)
(* Data of the dependency resolver.                                        *)
(***************************************************************************)

\* dep.ResolvedTarget: the key type of the returned map.
ResolvedTarget(url, unitType, unit, revSpec) ==
    [ToRepoCloneURL |-> url, ToUnitType |-> unitType, ToUnit |-> unit,
     ToRevSpec |-> revSpec]

\* The targets local records may name: a base tuple, four tuples that differ
\* from it in exactly one field, and one with an empty clone URL.
Targets ==
    { ResolvedTarget("u1", "t1", "a", "r1"),
      ResolvedTarget("u2", "t1", "a", "r1"),
      ResolvedTarget("u1", "t2", "a", "r1"),
      ResolvedTarget("u1", "t1", "b", "r1"),
      ResolvedTarget("u1", "t1", "a", "r2"),
      ResolvedTarget("", "t1", "a", "r1") }

\* dep.Resolution: Target is a pointer, {} is nil.
Resolutions == [Target : {{}} \cup {{t} : t \in Targets}]

\* buildstore.DataTypeSuffix([]*dep.ResolvedDep{})
DepSuffix == "depresolve.json"

\* strings.HasSuffix(depfile, depSuffix): a path is a directory and a file
\* name; the suffix is matched against the file name.
HasSuffix(path, suffix) == path.name = suffix

\* A file of the commit's build data, as the walk meets it: whether Open
\* succeeds, whether its JSON decodes, and the records it decodes to.
File(dir, name, opens, decodes, rs) ==
    [path |-> [dir |-> dir, name |-> name], opens |-> opens,
     decodes |-> decodes, deps |-> rs]

FilesAt(dir) ==
    {File(dir, "graph.json", TRUE, TRUE, <<>>),
     File(dir, DepSuffix, FALSE, TRUE, <<>>),
     File(dir, DepSuffix, TRUE, FALSE, <<>>)}
    \cup {File(dir, DepSuffix, TRUE, TRUE, rs) : rs \in SeqUpTo(Resolutions, MaxRecs)}

\* The caller's repo: nil when there is no current repository.
NilRepo == [isNil |-> TRUE, URI |-> "", CommitID |-> ""]
Repos == {NilRepo, [isNil |-> FALSE, URI |-> "r1", CommitID |-> "c1"]}
URIs == {"r1", "r2"}
Commits == {"c1", "c2"}

\* sourcegraph.RepoBuildInfo: Exact and LastSuccessfulCommit are pointers
\* ({} is nil), held here by the commit ID they carry.
BuildInfos == [Exact : {{}} \cup {{c} : c \in Commits},
               LastSuccessfulCommit : {{}} \cup {{c} : c \in Commits}]

\* Repo URLs the remote may list, and sourcegraph.RepoDependency.
RemoteURLs == {"u1", "u2", "u3"}
RepoDependencies == [ToRepo : RemoteURLs]

\* ListOptions{PerPage: 50}
PerPage == 50

\* Errors: the kind, and for the final fmt.Errorf the repo and commit named.
Error(kind, u, commit) == [kind |-> kind, uri |-> u, commit |-> commit]
NoError == Error("nil", "", "")

NilMap == [isNil |-> TRUE, targets |-> {}]
Map(ts) == [isNil |-> FALSE, targets |-> ts]

----------------------------------------------------------------------------
(***************************************************************************)
(* Pure steps of listRepoDependencies.                                     *)
(***************************************************************************)

\* tryLocal := repo != nil && repo.URI() == uri
TryLocal(r, u) == ~r.isNil /\ r.URI = u

\* Mutant: the clone URL is not tested.
CollectTargets_NoURLTest(m, rs) ==
    m \cup UNION {rs[i].Target : i \in 1..Len(rs)}

\* The inner loop over one decoded file: every record whose Target is non-nil
\* and has a non-empty clone URL is put in the map.
CollectTargets(m, rs) ==
    m \cup {t \in UNION {rs[i].Target : i \in 1..Len(rs)} : t.ToRepoCloneURL # ""}

\* Mutant: a file that does not decode is taken as one without records.
OpenAndDecode_DecodeUnchecked(f) == IF ~f.opens THEN "Open" ELSE "nil"

\* Lines 501-508: the error of commitFS.Open or of Decode, "nil" when both
\* succeed.
OpenAndDecode(f) ==
    IF ~f.opens THEN "Open"
    ELSE IF ~f.decodes THEN "Decode"
    ELSE "nil"

\* Mutant: an empty local answer is not final (falls back to the remote).
LocalAnswerIsFinal_NonEmpty(found, m) == found /\ m # {}

\* Mutant: the local answer is final whether or not a file was found.
LocalAnswerIsFinal_Always(found, m) == TRUE

\* if hasDepResolveFile { return depTargets, nil }
LocalAnswerIsFinal(found, m) == found

\* The commit chosen from GetBuild's answer ("" when none).
ResolveCommit(info, want) ==
    IF info.Exact # {} /\ want \in info.Exact
    THEN want
    ELSE IF info.LastSuccessfulCommit # {}
         THEN CHOOSE c \in info.LastSuccessfulCommit : TRUE
         ELSE ""

\* Mutant: the dependency list is requested even with no commit chosen.
ListsRemoteDeps_Always(c) == TRUE

\* if commitID != "" { ... ListDependencies ... }
ListsRemoteDeps(c) == c # ""

\* repoRevSpec, built once from uri and repo.CommitID and passed to both
\* GetBuild and ListDependencies.
RepoRevSpec(u, r) == [URI |-> u, Rev |-> r.CommitID]

\* Mutant: the unit field is filled in too.
RemoteTarget_WithUnit(d) == ResolvedTarget(d.ToRepo, "", d.ToRepo, "")

\* tgt := dep.ResolvedTarget{ToRepoCloneURL: d.ToRepo}
RemoteTarget(d) == ResolvedTarget(d.ToRepo, "", "", "")

\* The loop over the remote records.
AddRemoteTargets(m, ds) == m \cup {RemoteTarget(ds[i]) : i \in 1..Len(ds)}

Return(r, e) == pc' = "return" /\ ret' = r /\ err' = e

----------------------------------------------------------------------------
(***************************************************************************)
(* listRepoDependencies, one action per step.                              *)
(***************************************************************************)

DepsInit ==
    /\ pc = "entry"
    /\ repo \in Repos
    /\ uri \in URIs
    /\ depTargets = {}
    /\ exists = FALSE
    /\ hasDepResolveFile = FALSE
    /\ commitFS = <<>>
    /\ commitID = ""
    /\ calls = <<>>
    /\ b = {}
    /\ deps = <<>>
    /\ ret = NilMap
    /\ err = NoError

\* Lines 478-487: the local path is skipped unless the current repo is the
\* one asked about; buildstore.LocalRepo may fail.
OpenLocal ==
    /\ pc = "entry"
    /\ IF TryLocal(repo, uri)
       THEN \E ok \in BOOLEAN :
              IF ok
              THEN pc' = "exists" /\ UNCHANGED <<ret, err>>
              ELSE Return(NilMap, Error("LocalRepo", "", ""))
       ELSE pc' = "remote" /\ UNCHANGED <<ret, err>>
    /\ UNCHANGED <<repo, uri, depTargets, exists, hasDepResolveFile, commitFS,
                   commitID, calls, b, deps>>
    /\ UNCHANGED notDepVars

\* Lines 488-496: BuildDataExistsForCommit.
CheckBuildData ==
    /\ pc = "exists"
    /\ \E outcome \in {"error", "exists", "missing"} :
         CASE outcome = "error" -> Return(NilMap, Error("BuildDataExists", "", ""))
           [] outcome = "exists" -> pc' = "walk" /\ UNCHANGED <<ret, err>>
           [] outcome = "missing" -> pc' = "remote" /\ UNCHANGED <<ret, err>>
    /\ exists' = (pc' = "walk")
    /\ UNCHANGED <<repo, uri, depTargets, hasDepResolveFile, commitFS, commitID,
                   calls, b, deps>>
    /\ UNCHANGED notDepVars

\* Lines 497-516: one iteration of the walk.
WalkStep ==
    /\ pc = "walk"
    /\ Len(commitFS) < MaxFiles
    /\ \E f \in FilesAt(Len(commitFS) + 1) :
         /\ commitFS' = Append(commitFS, f)
         /\ IF ~HasSuffix(f.path, DepSuffix)
            THEN UNCHANGED <<pc, ret, err, hasDepResolveFile, depTargets>>
            ELSE IF OpenAndDecode(f) # "nil"
            THEN Return(NilMap, Error(OpenAndDecode(f), "", ""))
                 /\ UNCHANGED <<hasDepResolveFile, depTargets>>
            ELSE /\ hasDepResolveFile' = TRUE
                 /\ depTargets' = CollectTargets(depTargets, f.deps)
                 /\ UNCHANGED <<pc, ret, err>>
    /\ UNCHANGED <<repo, uri, exists, commitID, calls, b, deps>>
    /\ UNCHANGED notDepVars

\* Lines 517-523: the walk is over.
WalkEnd ==
    /\ pc = "walk"
    /\ IF LocalAnswerIsFinal(hasDepResolveFile, depTargets)
       THEN Return(Map(depTargets), NoError)
       ELSE pc' = "remote" /\ UNCHANGED <<ret, err>>
    /\ UNCHANGED <<repo, uri, depTargets, exists, hasDepResolveFile, commitFS,
                   commitID, calls, b, deps>>
    /\ UNCHANGED notDepVars

\* Lines 527-544 and 563: repo.CommitID is read (a nil repo panics), GetBuild
\* is called, and the commit is chosen; with no commit the function fails.
GetBuild ==
    /\ pc = "remote"
    /\ IF repo.isNil
       THEN pc' = "panic" /\ UNCHANGED <<ret, err, calls, b, commitID>>
       ELSE /\ calls' = Append(calls, [op |-> "GetBuild", spec |-> RepoRevSpec(uri, repo)])
            /\ \/ /\ Return(NilMap, Error("GetBuild", "", ""))
                  /\ UNCHANGED <<b, commitID>>
               \/ \E info \in BuildInfos :
                    /\ b' = {info}
                    /\ commitID' = ResolveCommit(info, repo.CommitID)
                    /\ IF ListsRemoteDeps(commitID')
                       THEN pc' = "listdeps" /\ UNCHANGED <<ret, err>>
                       ELSE Return(NilMap, Error("NoDependencies", uri, repo.CommitID))
    /\ UNCHANGED <<repo, uri, depTargets, exists, hasDepResolveFile, commitFS, deps>>
    /\ UNCHANGED notDepVars

\* Lines 546-561: ListDependencies and the conversion of its records.
ListDependencies ==
    /\ pc = "listdeps"
    /\ calls' = Append(calls, [op |-> "ListDependencies", spec |-> RepoRevSpec(uri, repo)])
    /\ \/ /\ Return(NilMap, Error("ListDependencies", "", ""))
          /\ UNCHANGED <<deps, depTargets>>
       \/ \E ds \in SeqUpTo(RepoDependencies, MaxRemote) :
            /\ Len(ds) <= PerPage
            /\ deps' = ds
            /\ depTargets' = AddRemoteTargets(depTargets, ds)
            /\ Return(Map(depTargets'), NoError)
    /\ UNCHANGED <<repo, uri, exists, hasDepResolveFile, commitFS, commitID, b>>
    /\ UNCHANGED notDepVars

DepsNext ==
    \/ OpenLocal
    \/ CheckBuildData
    \/ WalkStep
    \/ WalkEnd
    \/ GetBuild
    \/ ListDependencies

----------------------------------------------------------------------------
(***************************************************************************)
(* defXRefsIndex.                                                          *)
(***************************************************************************)

\* graph.Ref: the Def it points at (DefKey), the repo, source unit and file
\* it occurs in, and its byte range [Start, End).
Ref(defKey, r, unit, file, start, end) ==
    [DefKey |-> defKey, Repo |-> r, Unit |-> unit, File |-> file,
     Start |-> start, End |-> end]

\* Refs a caller may pass: two overlapping refs of one unit and file, refs of
\* another unit, of another Def, and one naming a Def that does not exist.
RefUniverse ==
    { Ref("K1", "r1", "a", "f", 0, 5),
      Ref("K1", "r1", "a", "f", 3, 8),
      Ref("K1", "r1", "b", "g", 0, 5),
      Ref("K2", "r2", "b", "g", 10, 12),
      Ref("K9", "r1", "a", "f", 20, 25) }

DefKeys == {"K1", "K2"}     \* the Defs that exist
AllKeys == {r.DefKey : r \in RefUniverse}

\* The struct value: phtable (nil is the empty table) and ready.
Index(table, rdy) == [phtable |-> table, ready |-> rdy]

\* defXRefsIndex.Build: the body is `return nil`; the receiver is not touched.
BuildIndex(x, refs) == x
BuildError(x, refs) == "nil"

\* Mutant: Update appends the refs without deleting the units' old ones.
UpdateIndex_Append(x, refs) == [phtable |-> x.phtable \o refs, ready |-> TRUE]

\* defXRefsIndex.Update: the body is `return nil`; the receiver is not touched.
UpdateIndex(x, refs) == x
UpdateError(x, refs) == "nil"

\* Lexical order of the strings used for repos and files.
StringOrder == <<"f", "g", "r1", "r2">>
Rank(str) == CHOOSE i \in 1..Len(StringOrder) : StringOrder[i] = str

\* Ascending (repo, file, start).
RefLeq(p, q) ==
    \/ Rank(p.Repo) < Rank(q.Repo)
    \/ /\ p.Repo = q.Repo
       /\ \/ Rank(p.File) < Rank(q.File)
          \/ p.File = q.File /\ p.Start <= q.Start

Count(s, e) == Cardinality({i \in 1..Len(s) : s[i] = e})

\* The refs of s that point at key, in ascending (repo, file, start) order.
SortedRefsTo(s, key) ==
    LET sel == SelectSeq(s, LAMBDA r : r.DefKey = key)
    IN CHOOSE t \in [1..Len(sel) -> Range(sel)] :
         /\ \A e \in Range(sel) : Count(t, e) = Count(sel, e)
         /\ \A i \in 1..Len(t) : \A k \in 1..Len(t) : i < k => RefLeq(t[i], t[k])

\* The lookup: not ready fails fast with no refs; otherwise the refs to key.
ReferencesTo(x, key) ==
    IF x.ready
    THEN [notReady |-> FALSE, refs |-> SortedRefsTo(x.phtable, key)]
    ELSE [notReady |-> TRUE, refs |-> <<>>]

NoCall == [op |-> "none", refs |-> <<>>, err |-> "nil", before |-> Index(<<>>, FALSE)]

IdxInit ==
    /\ phtable = <<>>
    /\ ready = FALSE
    /\ xCall = NoCall
    /\ xRepeat = FALSE

Build ==
    /\ \E refs \in SeqUpTo(RefUniverse, MaxRefs) :
         LET x == Index(phtable, ready) IN
         /\ phtable' = BuildIndex(x, refs).phtable
         /\ ready' = BuildIndex(x, refs).ready
         /\ xCall' = [op |-> "Build", refs |-> refs, err |-> BuildError(x, refs),
                      before |-> x]
         /\ xRepeat' = (xCall.op = xCall'.op /\ xCall.refs = refs)
    /\ UNCHANGED notIdxVars

Update ==
    /\ \E refs \in SeqUpTo(RefUniverse, MaxRefs) :
         LET x == Index(phtable, ready) IN
         /\ phtable' = UpdateIndex(x, refs).phtable
         /\ ready' = UpdateIndex(x, refs).ready
         /\ xCall' = [op |-> "Update", refs |-> refs, err |-> UpdateError(x, refs),
                      before |-> x]
         /\ xRepeat' = (xCall.op = xCall'.op /\ xCall.refs = refs)
    /\ UNCHANGED notIdxVars

IdxNext ==
    \/ Build
    \/ Update


----------------------------------------------------------------------------
(***************************************************************************)
(* src delta: the Defs of two commits, the delta the service computes, and *)
(* what each subcommand prints.                                            *)
(***************************************************************************)

\* Def identities (UnitType, Unit, Path) and the signatures a Def may have.
DefIds == {"A", "B", "C"}
DefIdOrder == <<"A", "B", "C">>
Sigs == {"s1", "s2"}

\* The Defs of one commit: for each identity its signature, or absent.
CommitDefs == [DefIds -> Sigs \cup {"absent"}]
NoDefs == [k \in DefIds |-> "absent"]

\* sourcegraph.Def as the delta commands use it: Name and FmtStrings (a
\* pointer, {} is nil; Def "A" comes without format strings).
DeltaDefOf(k, sig) ==
    [Key |-> k, Sig |-> sig, Name |-> k,
     FmtStrings |-> IF k = "A" THEN {}
                    ELSE {[DefKeyword |-> IF k = "B" THEN "func" ELSE "",
                           Name |-> [DepQualified |-> k],
                           NameAndTypeSeparator |-> " ",
                           Type |-> [DepQualified |-> sig]]}]

\* sourcegraph.DeltaDef: two optional Def pointers.
DeltaDef(base, head) == [Base |-> base, Head |-> head]
Added(dd) == dd.Base = {} /\ dd.Head # {}
Changed(dd) == dd.Base # {} /\ dd.Head # {}
Deleted(dd) == dd.Base # {} /\ dd.Head = {}

\* The delta of one identity: nothing when absent on both sides or identical.
DeltaOfId(base, head, k) ==
    IF base[k] = head[k]
    THEN <<>>
    ELSE <<DeltaDef(IF base[k] = "absent" THEN {} ELSE {DeltaDefOf(k, base[k])},
                    IF head[k] = "absent" THEN {} ELSE {DeltaDefOf(k, head[k])})>>

RECURSIVE DeltaOfIds(_, _, _)
DeltaOfIds(base, head, ids) ==
    IF ids = <<>>
    THEN <<>>
    ELSE DeltaOfId(base, head, Head(ids)) \o DeltaOfIds(base, head, Tail(ids))

\* Deltas.ListDefs: the DeltaDefs of the two commits and their DiffStat.
ListDefs(base, head) ==
    LET dds == DeltaOfIds(base, head, DefIdOrder)
    IN [Defs |-> dds,
        DiffStat |-> [Added |-> Cardinality({i \in 1..Len(dds) : Added(dds[i])}),
                      Changed |-> Cardinality({i \in 1..Len(dds) : Changed(dds[i])}),
                      Deleted |-> Cardinality({i \in 1..Len(dds) : Deleted(dds[i])})]]

NoDeltaDefs == [Defs |-> <<>>, DiffStat |-> [Added |-> 0, Changed |-> 0, Deleted |-> 0]]

\* A printed line: what it is, its colour, its leading glyph, the number of a
\* statistics line and the text that follows.
Line(kind, colour, glyph, n, text) ==
    [kind |-> kind, colour |-> colour, glyph |-> glyph, n |-> n, text |-> text]
BlankLine == Line("blank", "", "", 0, <<>>)

\* fmtDeltaDefName: the name alone without format strings, else keyword
\* (followed by a space when not empty), name, separator and type.
fmtDeltaDefName(d) ==
    IF d.FmtStrings = {}
    THEN <<d.Name>>
    ELSE LET f == CHOOSE f \in d.FmtStrings : TRUE
             kw == IF f.DefKeyword # "" THEN f.DefKeyword \o " " ELSE f.DefKeyword
         IN <<kw, f.Name.DepQualified, f.NameAndTypeSeparator, f.Type.DepQualified>>

\* fmtDeltaPerson
fmtDeltaPerson(p) ==
    IF p.Transient THEN p.Name
    ELSE IF p.Name = "" THEN p.Login
    ELSE p.Login \o " (" \o p.Name \o ")"

TheDef(ptr) == CHOOSE d \in ptr : TRUE

\* The signs of the three classes, as the statistics print them (lines 92-94).
SignOf(class) ==
    CASE class = "Added" -> "+"
      [] class = "Changed" -> "triangle"
      [] class = "Deleted" -> "-"

\* Mutant: the two counts are printed under each other's sign.
StatLines_Swapped(stat, diffStat) ==
    IF stat
    THEN <<Line("stat", "green", SignOf("Added"), diffStat.Deleted, <<>>),
           Line("stat", "yellow", SignOf("Changed"), diffStat.Changed, <<>>),
           Line("stat", "red", SignOf("Deleted"), diffStat.Added, <<>>),
           BlankLine>>
    ELSE <<>>

\* `delta defs`, lines 91-96: the statistics, printed with --stat.
StatLines(stat, diffStat) ==
    IF stat
    THEN <<Line("stat", "green", SignOf("Added"), diffStat.Added, <<>>),
           Line("stat", "yellow", SignOf("Changed"), diffStat.Changed, <<>>),
           Line("stat", "red", SignOf("Deleted"), diffStat.Deleted, <<>>),
           BlankLine>>
    ELSE <<>>

\* Mutant: deleted Defs are not printed.
DefLines_NoDeleted(dd) ==
    (IF Added(dd) THEN <<Line("def", "green", "+", 0, fmtDeltaDefName(TheDef(dd.Head)))>>
     ELSE <<>>)
    \o (IF Changed(dd)
        THEN <<Line("def", "yellow", "triangle", 0, fmtDeltaDefName(TheDef(dd.Base)))>>
        ELSE <<>>)

\* `delta defs`, lines 99-108: the three tests made on one DeltaDef. The
\* line of a deleted Def is printed with a red "+".
DefLines(dd) ==
    (IF Added(dd) THEN <<Line("def", "green", "+", 0, fmtDeltaDefName(TheDef(dd.Head)))>>
     ELSE <<>>)
    \o (IF Changed(dd)
        THEN <<Line("def", "yellow", "triangle", 0, fmtDeltaDefName(TheDef(dd.Base)))>>
        ELSE <<>>)
    \o (IF Deleted(dd)
        THEN <<Line("def", "red", "+", 0, fmtDeltaDefName(TheDef(dd.Base)))>>
        ELSE <<>>)

RECURSIVE AllDefLines(_)
AllDefLines(dds) ==
    IF dds = <<>> THEN <<>> ELSE DefLines(Head(dds)) \o AllDefLines(Tail(dds))

\* `delta defs`, lines 91-109.
PrintDefs(stat, answer) == StatLines(stat, answer.DiffStat) \o AllDefLines(answer.Defs)

\* sourcegraph.Person, and one entry of an affected-authors/clients answer.
Persons ==
    {[Transient |-> TRUE, Login |-> "", Name |-> "Ann"],
     [Transient |-> FALSE, Login |-> "bob", Name |-> ""],
     [Transient |-> FALSE, Login |-> "cy", Name |-> "Cy"]}
AffectedPeople == [Person : Persons, Defs : {<<DeltaDefOf("A", "s1"), DeltaDefOf("B", "s1")>>}]

RECURSIVE ItemLines(_)
ItemLines(ds) ==
    IF ds = <<>> THEN <<>>
    ELSE <<Line("item", "", "", 0, fmtDeltaDefName(Head(ds)))>> \o ItemLines(Tail(ds))

\* `delta authors` and `delta clients`, lines 132-138 and 161-167.
RECURSIVE PrintPeople(_)
PrintPeople(ps) ==
    IF ps = <<>> THEN <<>>
    ELSE <<Line("person", "cyan", "", 0, <<fmtDeltaPerson(Head(ps).Person)>>)>>
         \o ItemLines(Head(ps).Defs) \o <<BlankLine>> \o PrintPeople(Tail(ps))

\* One affected def of a dependent repository and the files of its
\* reference sites; the n-th def listed is the n-th of DefIdOrder.
RefFiles == {"f", "g"}
DefRefsLists ==
    UNION {[1..n -> SeqUpTo(RefFiles, MaxSites)] : n \in 0..MaxDefRefs}
DefRef(i, files) == [Def |-> DeltaDefOf(DefIdOrder[i], "s1"), Refs |-> files]
DeltaRepoOf(u, fileLists) ==
    [Repo |-> [URI |-> u],
     DefRefs |-> [i \in 1..Len(fileLists) |-> DefRef(i, fileLists[i])]]

\* `delta refs`, lines 196-202: the loop over one def's refs, from the
\* seenFiles it starts with.
RECURSIVE FileLines(_, _)
FileLines(files, seenFiles) ==
    IF files = <<>> THEN <<>>
    ELSE IF Head(files) \in seenFiles
         THEN FileLines(Tail(files), seenFiles)
         ELSE <<Line("file", "", "-", 0, <<Head(files)>>)>>
              \o FileLines(Tail(files), seenFiles \cup {Head(files)})

Files(lines) == {lines[i].text[1] : i \in 1..Len(lines)}

\* Mutant: one seenFiles map serves all the defs of a repository.
RECURSIVE DefRefLinesFrom(_, _)
DefRefLinesFrom(drs, seenFiles) ==
    IF drs = <<>> THEN <<>>
    ELSE LET fileLines == FileLines(Head(drs).Refs, seenFiles)
         IN <<Line("item", "", "", 0, fmtDeltaDefName(Head(drs).Def))>>
            \o fileLines \o DefRefLinesFrom(Tail(drs), seenFiles \cup Files(fileLines))
DefRefLines_SharedSeen(drs) == DefRefLinesFrom(drs, {})

\* Lines 193-203: seenFiles is a fresh map for every def.
RECURSIVE DefRefLines(_)
DefRefLines(drs) ==
    IF drs = <<>> THEN <<>>
    ELSE <<Line("item", "", "", 0, fmtDeltaDefName(Head(drs).Def))>>
         \o FileLines(Head(drs).Refs, {}) \o DefRefLines(Tail(drs))

\* `delta refs`, lines 191-205.
RECURSIVE PrintRepos(_)
PrintRepos(rs) ==
    IF rs = <<>> THEN <<>>
    ELSE <<Line("repo", "cyan", "", 0, <<Head(rs).Repo.URI>>)>>
         \o DefRefLines(Head(rs).DefRefs) \o <<BlankLine>> \o PrintRepos(Tail(rs))

\* Mutant: a failed call is not acted on.
AbortsOn_Never(e) == FALSE

\* if err != nil { return err }
AbortsOn(e) == e # "nil"

DeltaCmds == {"defs", "authors", "clients", "refs"}

DeltaInit ==
    /\ dPc = "idle"
    /\ dCmd = "none"
    /\ dStat = FALSE
    /\ dBase = NoDefs
    /\ dHead = NoDefs
    /\ dDefs = NoDeltaDefs
    /\ dPeople = <<>>
    /\ dRepos = <<>>
    /\ dOut = <<>>
    /\ dErr = "nil"
    /\ dFail = "nil"

\* The command line: the subcommand, and --stat for `delta defs`.
DeltaInvoke ==
    /\ dPc = "idle"
    /\ \E cmd \in DeltaCmds : \E stat \in BOOLEAN :
         /\ stat => cmd = "defs"
         /\ dCmd' = cmd
         /\ dStat' = stat
    /\ dPc' = "open"
    /\ UNCHANGED <<dBase, dHead, dDefs, dPeople, dRepos, dOut, dErr, dFail>>
    /\ UNCHANGED notDeltaVars

\* getDelta, lines 211-219: OpenRepo(".").
DeltaOpenRepo ==
    /\ dPc = "open"
    /\ \E e \in {"nil", "OpenRepo"} :
         /\ dFail' = e
         /\ IF AbortsOn(e)
            THEN dPc' = "done" /\ dErr' = e
            ELSE dPc' = "get" /\ UNCHANGED dErr
    /\ UNCHANGED <<dCmd, dStat, dBase, dHead, dDefs, dPeople, dRepos, dOut>>
    /\ UNCHANGED notDeltaVars

\* getDelta, lines 221-243, and the caller's test of its error.
DeltaGet ==
    /\ dPc = "get"
    /\ \E e \in {"nil", "Deltas.Get"} :
         /\ dFail' = e
         /\ IF AbortsOn(e)
            THEN dPc' = "done" /\ dErr' = e
            ELSE dPc' = "list" /\ UNCHANGED dErr
    /\ UNCHANGED <<dCmd, dStat, dBase, dHead, dDefs, dPeople, dRepos, dOut>>
    /\ UNCHANGED notDeltaVars

\* The subcommand's Deltas.List* call: a failure, or the answer.
DeltaList ==
    /\ dPc = "list"
    /\ \/ /\ dFail' = "Deltas.List"
          /\ IF AbortsOn("Deltas.List")
             THEN dPc' = "done" /\ dErr' = "Deltas.List"
             ELSE dPc' = "print" /\ UNCHANGED dErr
          /\ UNCHANGED <<dBase, dHead, dDefs, dPeople, dRepos>>
       \/ /\ dCmd = "defs"
          /\ \E base \in CommitDefs : \E head \in CommitDefs :
               /\ dBase' = base
               /\ dHead' = head
               /\ dDefs' = ListDefs(base, head)
          /\ dPc' = "print"
          /\ UNCHANGED <<dPeople, dRepos, dErr, dFail>>
       \/ /\ dCmd \in {"authors", "clients"}
          /\ dPeople' \in SeqUpTo(AffectedPeople, MaxPeople)
          /\ dPc' = "print"
          /\ UNCHANGED <<dBase, dHead, dDefs, dRepos, dErr, dFail>>
       \/ /\ dCmd = "refs"
          /\ \E u \in {"r2"} : \E fl \in DefRefsLists :
               dRepos' \in {<<>>, <<DeltaRepoOf(u, fl)>>}
          /\ dPc' = "print"
          /\ UNCHANGED <<dBase, dHead, dDefs, dPeople, dErr, dFail>>
    /\ UNCHANGED <<dCmd, dStat, dOut>>
    /\ UNCHANGED notDeltaVars

\* The printing loops; Execute then returns nil.
DeltaPrint ==
    /\ dPc = "print"
    /\ dOut' = CASE dCmd = "defs" -> PrintDefs(dStat, dDefs)
                 [] dCmd \in {"authors", "clients"} -> PrintPeople(dPeople)
                 [] dCmd = "refs" -> PrintRepos(dRepos)
    /\ dPc' = "done"
    /\ UNCHANGED <<dCmd, dStat, dBase, dHead, dDefs, dPeople, dRepos, dErr, dFail>>
    /\ UNCHANGED notDeltaVars

DeltaNext ==
    \/ DeltaInvoke
    \/ DeltaOpenRepo
    \/ DeltaGet
    \/ DeltaList
    \/ DeltaPrint

----------------------------------------------------------------------------
(***************************************************************************)
(* query: one search and the printing of its result.                       *)
(***************************************************************************)

\* The defs a Search result may hold. The first two differ in Unit and in
\* Path; the third is the first one's namesake in another repository.
SearchDef(repo_, unitType, unit, path_) ==
    [Repo |-> repo_, UnitType |-> unitType, Unit |-> unit, Path |-> path_]
SearchDefs ==
    {SearchDef("r1", "Go", "u", "pq"),
     SearchDef("r1", "Go", "up", "q"),
     SearchDef("r2", "Go", "u", "pq")}

\* The flags: --def, --authors, --refs (0 is off) and --terse.
RefsOpts == {0, MaxShown}
QueryOpts == [Def : BOOLEAN, Authors : BOOLEAN, Refs : RefsOpts, Terse : BOOLEAN]
NoOpts == [Def |-> FALSE, Authors |-> FALSE, Refs |-> 0, Terse |-> FALSE]

\* The fetches made for one def, and which of them fail together.
Snippet(j) == <<"snippet", j>>
Fetches == {<<"def", 0>>, <<"authors", 0>>, <<"refs", 0>>} \cup {Snippet(j) : j \in 1..MaxShown}
FailChoices ==
    {{}} \cup {{f} : f \in Fetches} \cup {{<<"def", 0>>, Snippet(1)}}

\* One thing printed (fmt) or logged (log), about the i-th def and its j-th ref.
Event(to, kind, i, j) == [to |-> to, kind |-> kind, def |-> i, ref |-> j]

\* seenKey, line 278
SeenKey(def) == def.Repo \o def.UnitType \o def.Unit \o def.Path

\* printDefSummary: one line with --terse, else the title and the source line.
printDefSummary(opt, i) ==
    IF opt.Terse
    THEN <<Event("fmt", "title src", i, 0)>>
    ELSE <<Event("fmt", "title", i, 0), Event("fmt", "src", i, 0)>>

\* Lines 286-315: the def's source.
DefSource(opt, i, fails) ==
    IF opt.Def
    THEN (IF <<"def", 0>> \notin fails
          THEN <<Event("fmt", "def source", i, 0)>>
          ELSE <<Event("log", "Error fetching def", i, 0)>>)
         \o (IF ~opt.Terse THEN <<Event("fmt", "blank", i, 0)>> ELSE <<>>)
    ELSE <<>>

\* Lines 317-331: the def's authors.
DefAuthors(opt, i, fails) ==
    IF opt.Authors
    THEN IF <<"authors", 0>> \notin fails
         THEN <<Event("fmt", "author", i, 0)>>
         ELSE <<Event("log", "Error listing authors", i, 0), Event("log", "blank", i, 0)>>
    ELSE <<>>

\* Lines 348-398: the j-th ref of the def, its label line and its snippet.
RefEvent(opt, i, j, fails) ==
    <<Event("fmt", IF j = 1 THEN "Ref @" ELSE "    @", i, j)>>
    \o (IF ~opt.Terse
        THEN IF Snippet(j) \in fails
             THEN <<Event("log", "Error fetching example", i, j), Event("log", "blank", i, j)>>
             ELSE <<Event("fmt", "snippet", i, j), Event("fmt", "blank", i, j)>>
        ELSE <<>>)

\* Mutant: a snippet that cannot be fetched ends the loop over the refs.
RECURSIVE RefEvents_StopAtFailure(_, _, _, _)
RefEvents_StopAtFailure(opt, i, j, fails) ==
    IF j > opt.Refs THEN <<>>
    ELSE RefEvent(opt, i, j, fails)
         \o (IF ~opt.Terse /\ Snippet(j) \in fails THEN <<>>
             ELSE RefEvents_StopAtFailure(opt, i, j + 1, fails))

\* Lines 347-399: the loop over the refs, from the j-th on (ListRefs
\* answers opt.Refs refs).
RECURSIVE RefEvents(_, _, _, _)
RefEvents(opt, i, j, fails) ==
    IF j > opt.Refs THEN <<>>
    ELSE RefEvent(opt, i, j, fails) \o RefEvents(opt, i, j + 1, fails)

\* Lines 333-404: the def's refs and the closing blank line; a failed
\* ListRefs goes on to the next def at once.
DefRefsAndEnd(opt, i, fails) ==
    IF opt.Refs > 0 /\ <<"refs", 0>> \in fails
    THEN <<Event("log", "Error listing refs", i, 0), Event("log", "blank", i, 0)>>
    ELSE (IF opt.Refs > 0
          THEN (IF ~opt.Terse THEN <<Event("fmt", "blank", i, 0)>> ELSE <<>>)
               \o RefEvents(opt, i, 1, fails)
          ELSE <<>>)
         \o (IF ~opt.Terse \/ opt.Refs > 0 THEN <<Event("fmt", "blank", i, 0)>> ELSE <<>>)

\* Lines 284-404: one iteration of the loop for a def not seen before.
DefEvents(opt, i, fails) ==
    printDefSummary(opt, i) \o DefSource(opt, i, fails) \o DefAuthors(opt, i, fails)
    \o DefRefsAndEnd(opt, i, fails)

\* The fetches one iteration makes when those of fails fail.
FetchesMade(opt, fails) ==
    (IF opt.Def THEN {<<"def", 0>>} ELSE {})
    \cup (IF opt.Authors THEN {<<"authors", 0>>} ELSE {})
    \cup (IF opt.Refs > 0 THEN {<<"refs", 0>>} ELSE {})
    \cup (IF opt.Refs > 0 /\ <<"refs", 0>> \notin fails /\ ~opt.Terse
          THEN {Snippet(j) : j \in 1..opt.Refs} ELSE {})

QueryInit ==
    /\ qPc = "idle"
    /\ qOpt = NoOpts
    /\ qDefs = <<>>
    /\ qI = 0
    /\ qSeen = {}
    /\ qOut = <<>>
    /\ qRet = "none"
    /\ qFailed = {}

\* query is called with the flags of the command line.
QueryCall ==
    /\ qPc = "idle"
    /\ qOpt' \in QueryOpts
    /\ qPc' = "search"
    /\ UNCHANGED <<qDefs, qI, qSeen, qOut, qRet, qFailed>>
    /\ UNCHANGED notQueryVars

\* Lines 259-275: Search fails, finds nothing, or answers defs.
QuerySearch ==
    /\ qPc = "search"
    /\ \/ /\ qRet' = "Search"
          /\ qFailed' = {<<0, <<"search", 0>>>>}
          /\ qPc' = "done"
          /\ UNCHANGED <<qDefs, qI, qSeen, qOut>>
       \/ /\ qDefs' \in SeqUpTo(SearchDefs, MaxDefs)
          /\ IF qDefs' = <<>>
             THEN /\ qOut' = <<Event("fmt", "No results", 0, 0)>>
                  /\ qRet' = "nil"
                  /\ qPc' = "done"
                  /\ UNCHANGED <<qI, qSeen>>
             ELSE /\ qSeen' = {}
                  /\ qI' = 1
                  /\ qPc' = "loop"
                  /\ UNCHANGED <<qOut, qRet>>
          /\ UNCHANGED qFailed
    /\ UNCHANGED qOpt
    /\ UNCHANGED notQueryVars

\* Lines 277-405: one iteration of the loop over the defs.
QueryDef ==
    /\ qPc = "loop"
    /\ qI <= Len(qDefs)
    /\ IF SeenKey(qDefs[qI]) \in qSeen
       THEN UNCHANGED <<qSeen, qOut, qFailed>>
       ELSE \E fails \in FailChoices :
              /\ qSeen' = qSeen \cup {SeenKey(qDefs[qI])}
              /\ qOut' = qOut \o DefEvents(qOpt, qI, fails)
              /\ qFailed' = qFailed \cup {<<qI, f>> : f \in fails \cap FetchesMade(qOpt, fails)}
    /\ qI' = qI + 1
    /\ UNCHANGED <<qPc, qOpt, qDefs, qRet>>
    /\ UNCHANGED notQueryVars

\* Line 406
QueryReturn ==
    /\ qPc = "loop"
    /\ qI > Len(qDefs)
    /\ qRet' = "nil"
    /\ qPc' = "done"
    /\ UNCHANGED <<qOpt, qDefs, qI, qSeen, qOut, qFailed>>
    /\ UNCHANGED notQueryVars

QueryNext ==
    \/ QueryCall
    \/ QuerySearch
    \/ QueryDef
    \/ QueryReturn

----------------------------------------------------------------------------
(***************************************************************************)
(* QueryCmd.Execute: the completion candidates of the interactive shell.   *)
(* Strings are sequences of characters here, a URI is a sequence of path   *)
(* segments.                                                               *)
(***************************************************************************)

\* strings.ToLower
LowerChar(c) ==
    CASE c = "F" -> "f"
      [] c = "B" -> "b"
      [] OTHER -> c
ToLower(str) == [i \in 1..Len(str) |-> LowerChar(str[i])]

\* strings.HasPrefix
HasPrefix(str, prefix) ==
    /\ Len(prefix) <= Len(str)
    /\ SubSeq(str, 1, Len(prefix)) = prefix

\* strings.Count(str, c) for a one-character c, and strings.Contains
CountChar(str, c) == Cardinality({i \in 1..Len(str) : str[i] = c})
Contains(str, c) == \E i \in 1..Len(str) : str[i] = c

\* path.Base of a URI with a last segment that is not empty
Base(segments) == segments[Len(segments)]

\* repoAndDepURIs: the repository and one dependency
CompURIs == << <<<<"h">>, <<"F", "o">>>>, <<<<"h">>, <<"b">>>> >>

\* The dependency targets, one worker each, and what Defs.List may answer
\* for them: Name and FmtStrings.Name.DepQualified ({} without FmtStrings).
CompTargets == {"t1", "t2"}
CompDef(name, qname) == [Name |-> name, FmtStrings |-> qname]
DefListsOf(t) ==
    IF t = "t1"
    THEN {<<CompDef(<<"f", "o", "o">>, {<<"p", ".", "f", "o", "o">>})>>}
    ELSE {<<CompDef(<<"B">>, {})>>,
          <<CompDef(<<"B">>, {<<"a", ".", "b", ".", "B">>})>>,
          <<CompDef(<<"F">>, {<<"F", "(", ")">>})>>}

\* Lines 195-202: what a worker sends for one def.
SendsOf(def) ==
    <<def.Name>>
    \o (IF def.FmtStrings # {}
        THEN LET qname == CHOOSE q \in def.FmtStrings : TRUE
             IN IF CountChar(qname, ".") < 2 /\ ~Contains(qname, "(")
                THEN <<qname>> ELSE <<>>
        ELSE <<>>)

\* Lines 194-203
RECURSIVE SendsOfAll(_)
SendsOfAll(defs) ==
    IF defs = <<>> THEN <<>> ELSE SendsOf(Head(defs)) \o SendsOfAll(Tail(defs))

\* Lines 149-151: what the main goroutine sends.
MainSends == [i \in 1..Len(CompURIs) |-> Base(CompURIs[i])]

\* The queries readline asks completions for.
CompQueries == {<<"F", "o">>, <<"b">>}

Senders == {"main"} \cup CompTargets

\* Mutant: Lock does not wait for the mutex.
CanLock_NoWait(mu) == TRUE

\* compsMu.Lock() returns once the mutex is free.
CanLock(mu) == mu = "free"

\* Mutant: the new candidate is put in front.
AppendComp_InFront(cs, c) == <<c>> \o cs

\* Line 145
AppendComp(cs, c) == Append(cs, c)

\* Line 136
Matches(c, query) == HasPrefix(ToLower(c), ToLower(query))

CompInit ==
    /\ comps = <<>>
    /\ compsMu = "free"
    /\ sPc = [s \in Senders |-> IF s = "main" THEN "send" ELSE "idle"]
    /\ sQueue = [s \in Senders |-> IF s = "main" THEN MainSends ELSE <<>>]
    /\ colPc = "recv"
    /\ comp = <<>>
    /\ cplPc = "idle"
    /\ cplQuery = <<>>
    /\ cplK = 0
    /\ matches = <<>>
    /\ recvd = <<>>
    /\ cplLast = [q \in CompQueries |-> <<>>]

\* A sender is at a send on compc.
Sending(s) == sPc[s] = "send" /\ sQueue[s] # <<>>

\* Line 143: the collector receives from compc; the send of one sender
\* (lines 150, 195, 200) completes with it.
CollectorRecv ==
    /\ colPc = "recv"
    /\ \E s \in Senders :
         /\ Sending(s)
         /\ comp' = Head(sQueue[s])
         /\ recvd' = Append(recvd, Head(sQueue[s]))
         /\ sQueue' = [sQueue EXCEPT ![s] = Tail(sQueue[s])]
    /\ colPc' = "lock"
    /\ UNCHANGED <<comps, compsMu, sPc, cplPc, cplQuery, cplK, matches, cplLast>>
    /\ UNCHANGED notCompVars

\* Line 144
CollectorLock ==
    /\ colPc = "lock"
    /\ CanLock(compsMu)
    /\ compsMu' = "collector"
    /\ colPc' = "append"
    /\ UNCHANGED <<comps, sPc, sQueue, comp, cplPc, cplQuery, cplK, matches, recvd, cplLast>>
    /\ UNCHANGED notCompVars

\* Line 145
CollectorAppend ==
    /\ colPc = "append"
    /\ comps' = AppendComp(comps, comp)
    /\ colPc' = "unlock"
    /\ UNCHANGED <<compsMu, sPc, sQueue, comp, cplPc, cplQuery, cplK, matches, recvd, cplLast>>
    /\ UNCHANGED notCompVars

\* Line 146
CollectorUnlock ==
    /\ colPc = "unlock"
    /\ compsMu' = "free"
    /\ colPc' = "recv"
    /\ UNCHANGED <<comps, sPc, sQueue, comp, cplPc, cplQuery, cplK, matches, recvd, cplLast>>
    /\ UNCHANGED notCompVars

\* Lines 149-205: its sends done, the main goroutine starts one worker per
\* dependency target and goes on to the shell.
MainSpawn ==
    /\ sPc["main"] = "send"
    /\ sQueue["main"] = <<>>
    /\ sPc' = [s \in Senders |-> IF s = "main" THEN "shell" ELSE "getbuild"]
    /\ UNCHANGED <<comps, compsMu, sQueue, colPc, comp, cplPc, cplQuery, cplK, matches,
                   recvd, cplLast>>
    /\ UNCHANGED notCompVars

\* Lines 158-170: the worker gives up without a usable build.
WorkerGetBuild ==
    /\ \E t \in CompTargets :
         /\ sPc[t] = "getbuild"
         /\ \E usable \in BOOLEAN :
              sPc' = [sPc EXCEPT ![t] = IF usable THEN "list" ELSE "done"]
    /\ UNCHANGED <<comps, compsMu, sQueue, colPc, comp, cplPc, cplQuery, cplK, matches,
                   recvd, cplLast>>
    /\ UNCHANGED notCompVars

\* Lines 176-194: Defs.List fails, or answers the defs to send.
WorkerList ==
    /\ \E t \in CompTargets :
         /\ sPc[t] = "list"
         /\ \/ /\ sPc' = [sPc EXCEPT ![t] = "done"]
               /\ UNCHANGED sQueue
            \/ \E defs \in DefListsOf(t) :
               /\ sPc' = [sPc EXCEPT ![t] = "send"]
               /\ sQueue' = [sQueue EXCEPT ![t] = SendsOfAll(defs)]
    /\ UNCHANGED <<comps, compsMu, colPc, comp, cplPc, cplQuery, cplK, matches, recvd, cplLast>>
    /\ UNCHANGED notCompVars

\* Line 204: the worker's loop is over.
WorkerReturn ==
    /\ \E t \in CompTargets :
         /\ sPc[t] = "send"
         /\ sQueue[t] = <<>>
         /\ sPc' = [sPc EXCEPT ![t] = "done"]
    /\ UNCHANGED <<comps, compsMu, sQueue, colPc, comp, cplPc, cplQuery, cplK, matches,
                   recvd, cplLast>>
    /\ UNCHANGED notCompVars

\* Line 131: readline calls the Completer while the shell reads a line.
CompleterCall ==
    /\ sPc["main"] = "shell"
    /\ cplPc = "idle"
    /\ cplQuery' \in CompQueries
    /\ cplPc' = "lock"
    /\ UNCHANGED <<comps, compsMu, sPc, sQueue, colPc, comp, cplK, matches, recvd, cplLast>>
    /\ UNCHANGED notCompVars

\* Lines 132-134
CompleterLock ==
    /\ cplPc = "lock"
    /\ CanLock(compsMu)
    /\ compsMu' = "completer"
    /\ matches' = <<>>
    /\ cplK' = 1
    /\ cplPc' = "read"
    /\ UNCHANGED <<comps, sPc, sQueue, colPc, comp, cplQuery, recvd, cplLast>>
    /\ UNCHANGED notCompVars

\* Lines 135-139: one iteration of the loop over comps.
CompleterRead ==
    /\ cplPc = "read"
    /\ cplK <= Len(comps)
    /\ matches' = IF Matches(comps[cplK], cplQuery) THEN Append(matches, comps[cplK])
                  ELSE matches
    /\ cplK' = cplK + 1
    /\ UNCHANGED <<comps, compsMu, sPc, sQueue, colPc, comp, cplPc, cplQuery, recvd, cplLast>>
    /\ UNCHANGED notCompVars

\* Lines 140 and 133: return matches, and the deferred Unlock.
CompleterReturn ==
    /\ cplPc = "read"
    /\ cplK > Len(comps)
    /\ cplLast' = [cplLast EXCEPT ![cplQuery] = matches]
    /\ compsMu' = "free"
    /\ cplPc' = "idle"
    /\ UNCHANGED <<comps, sPc, sQueue, colPc, comp, cplQuery, cplK, matches, recvd>>
    /\ UNCHANGED notCompVars

CompNext ==
    \/ CollectorRecv
    \/ CollectorLock
    \/ CollectorAppend
    \/ CollectorUnlock
    \/ MainSpawn
    \/ WorkerGetBuild
    \/ WorkerList
    \/ WorkerReturn
    \/ CompleterCall
    \/ CompleterLock
    \/ CompleterRead
    \/ CompleterReturn

----------------------------------------------------------------------------
(***************************************************************************)
(* QueryCmd.Execute: the interactive shell (lines 217-251).                *)
(***************************************************************************)

\* The lines readline.String may return, and strings.TrimSpace of them.
ShellLines == {"", "  ", "foo", " foo ", "bar"}
TrimSpace(line) ==
    CASE line = "  " -> ""
      [] line = " foo " -> "foo"
      [] OTHER -> line

\* The sigint channel holds one signal (line 217); signal.Notify drops a
\* signal that does not fit.
Notify(buffered) == IF buffered < 1 THEN buffered + 1 ELSE buffered

\* Nothing has interrupted the shell yet.
NoInterrupt == [arrived |-> FALSE, rPc |-> "none", history |-> <<>>, lineAfter |-> FALSE]

ShellInit ==
    /\ mPc = "select"
    /\ mRet = "none"
    /\ rPc = "read"
    /\ rErr = "nil"
    /\ sigint = 0
    /\ done = FALSE
    /\ history = <<>>
    /\ intr = NoInterrupt

\* The process is alive: Execute has not returned to a caller that has
\* ended the program.
Alive == mPc # "exited"

\* Lines 224-240: readline.String returns a line; an empty one is passed
\* over, another one is added to the history and queried.
ReadLine ==
    /\ Alive
    /\ rPc = "read"
    /\ Len(history) < MaxLines
    /\ \E line \in ShellLines :
         IF TrimSpace(line) = ""
         THEN UNCHANGED <<rPc, history>>
         ELSE /\ history' = Append(history, TrimSpace(line))
              /\ rPc' = "query"
    /\ intr' = IF intr.arrived THEN [intr EXCEPT !.lineAfter = TRUE] ELSE intr
    /\ UNCHANGED <<mPc, mRet, rErr, sigint, done>>
    /\ UNCHANGED notShellVars

\* Lines 225-232: readline.String returns io.EOF or another error.
ReadFails ==
    /\ Alive
    /\ rPc = "read"
    /\ \/ /\ done' = TRUE
          /\ rPc' = "done"
          /\ UNCHANGED rErr
       \/ /\ rErr' = "readline"
          /\ rPc' = "senderr"
          /\ UNCHANGED done
    /\ UNCHANGED <<mPc, mRet, sigint, history, intr>>
    /\ UNCHANGED notShellVars

\* Lines 238-240: the query returns, with or without an error.
QueryEnds ==
    /\ Alive
    /\ rPc = "query"
    /\ \/ /\ rPc' = "read"
          /\ UNCHANGED rErr
       \/ /\ rErr' = "query"
          /\ rPc' = "senderr"
    /\ UNCHANGED <<mPc, mRet, sigint, done, history, intr>>
    /\ UNCHANGED notShellVars

\* A SIGINT arrives while Execute waits in its select.
Interrupt ==
    /\ mPc = "select"
    /\ sigint' = Notify(sigint)
    /\ intr' = IF intr.arrived THEN intr
               ELSE [arrived |-> TRUE, rPc |-> rPc, history |-> history, lineAfter |-> FALSE]
    /\ UNCHANGED <<mPc, mRet, rPc, rErr, done, history>>
    /\ UNCHANGED notShellVars

\* Lines 244-245
SelectSigint ==
    /\ mPc = "select"
    /\ sigint > 0
    /\ sigint' = sigint - 1
    /\ mRet' = "nil"
    /\ mPc' = "returned"
    /\ UNCHANGED <<rPc, rErr, done, history, intr>>
    /\ UNCHANGED notShellVars

\* Lines 246-247, with the send of line 229 or 239 that it completes: after
\* 229 the reading goroutine returns, after 239 it reads on.
SelectErrc ==
    /\ mPc = "select"
    /\ rPc = "senderr"
    /\ mRet' = rErr
    /\ mPc' = "returned"
    /\ rPc' = IF rErr = "query" THEN "read" ELSE "done"
    /\ UNCHANGED <<rErr, sigint, done, history, intr>>
    /\ UNCHANGED notShellVars

\* Lines 248-250
SelectDone ==
    /\ mPc = "select"
    /\ done
    /\ mRet' = "nil"
    /\ mPc' = "returned"
    /\ UNCHANGED <<rPc, rErr, sigint, done, history, intr>>
    /\ UNCHANGED notShellVars

\* The caller of Execute ends the program, and with it the reading goroutine.
Exit ==
    /\ mPc = "returned"
    /\ mPc' = "exited"
    /\ UNCHANGED <<mRet, rPc, rErr, sigint, done, history, intr>>
    /\ UNCHANGED notShellVars

ShellNext ==
    \/ ReadLine
    \/ ReadFails
    \/ QueryEnds
    \/ Interrupt
    \/ SelectSigint
    \/ SelectErrc
    \/ SelectDone
    \/ Exit

----------------------------------------------------------------------------
(***************************************************************************)
(* QueryCmd.Execute: the scope and the commit of the search (lines 58-123). *)
(***************************************************************************)

\* graph.MakeURI: the repository URI of a clone URL. "u1" is a clone URL of
\* repository r1, "u2" and "u3" are two clone URLs of repository r2.
MakeURI(url) ==
    CASE url = "u1" -> "r1"
      [] url = "u2" -> "r2"
      [] url = "u3" -> "r2"
      [] OTHER -> url

\* The targets listRepoDependencies may answer: two that differ only in
\* unit, one that differs from them in revision, one of repository r1 and
\* one of a remote record.
ExecTargets ==
    {ResolvedTarget("u2", "t1", "a", "r1"),
     ResolvedTarget("u2", "t1", "b", "r1"),
     ResolvedTarget("u1", "t1", "a", "r1"),
     ResolvedTarget("u3", "", "", "")}

\* The flags read: --repo, --commit ("" when not given) and --add-deps.
ExecOpts == [RepoURI : URIs, CommitID : {""} \cup Commits, AddDeps : BOOLEAN]
NoExecOpts == [RepoURI |-> "", CommitID |-> "", AddDeps |-> FALSE]

\* Lines 87-92: the commit asked for.
RequestedCommit(c, r) ==
    IF c.CommitID # "" THEN c.CommitID
    ELSE IF ~r.isNil THEN r.CommitID
    ELSE ""

\* Mutant: the last successful commit is taken even when the commit asked
\* for is built.
SearchCommit_LastSuccessfulFirst(info, want) ==
    IF info.LastSuccessfulCommit # {}
    THEN CHOOSE c \in info.LastSuccessfulCommit : TRUE
    ELSE want

\* Lines 100-108: the commit searched, from GetBuild's answer.
SearchCommit(info, want) ==
    IF info.Exact # {} /\ want \in info.Exact
    THEN want
    ELSE IF info.LastSuccessfulCommit = {}
         THEN want
         ELSE CHOOSE c \in info.LastSuccessfulCommit : TRUE

\* Lines 112-116: the constraint written for one URI of the scope; commit is
\* {} when the URI is written without "@".
Constraint(repoURI, c, commit) ==
    [repo |-> repoURI, commit |-> IF repoURI = c.RepoURI THEN {commit} ELSE {}]

\* Lines 110-118
Constraints(scope, c, commit) ==
    [i \in 1..Len(scope) |-> Constraint(scope[i], c, commit)]

ExecInit ==
    /\ ePc = "entry"
    /\ eRepo = NilRepo
    /\ eOpt = NoExecOpts
    /\ eTargets = {}
    /\ seenDepURI = {}
    /\ repoAndDepURIs = <<>>
    /\ eCommitID = ""
    /\ eBuild = {}
    /\ queryConstraints = <<>>
    /\ eSearches = <<>>
    /\ eRet = "none"

\* Lines 59-68: the current repo is opened and listRepoDependencies called:
\* it panics without a current repo (line 528), fails, or answers targets.
ExecListDeps ==
    /\ ePc = "entry"
    /\ eRepo' \in Repos
    /\ eOpt' \in ExecOpts
    /\ IF eRepo'.isNil
       THEN /\ ePc' = "panic"
            /\ UNCHANGED <<eTargets, repoAndDepURIs, eRet>>
       ELSE \/ /\ eRet' = "listRepoDependencies"
               /\ ePc' = "done"
               /\ UNCHANGED <<eTargets, repoAndDepURIs>>
            \/ /\ eTargets' \in SUBSET ExecTargets
               /\ repoAndDepURIs' = <<eOpt'.RepoURI>>
               /\ ePc' = "scope"
               /\ UNCHANGED eRet
    /\ UNCHANGED <<seenDepURI, eCommitID, eBuild, queryConstraints, eSearches>>
    /\ UNCHANGED notExecVars

\* Lines 69-75: one iteration of the loop over the map, in any order.
ExecAddURI ==
    /\ ePc = "scope"
    /\ \E d \in eTargets :
         LET u == MakeURI(d.ToRepoCloneURL)
         IN /\ eTargets' = eTargets \ {d}
            /\ IF u \notin seenDepURI
               THEN /\ repoAndDepURIs' = Append(repoAndDepURIs, u)
                    /\ seenDepURI' = seenDepURI \cup {u}
               ELSE UNCHANGED <<repoAndDepURIs, seenDepURI>>
    /\ UNCHANGED <<ePc, eRepo, eOpt, eCommitID, eBuild, queryConstraints, eSearches, eRet>>
    /\ UNCHANGED notExecVars

\* Lines 77-85: with --add-deps every repo of the scope is created; the
\* first failure is returned.
ExecAddDeps ==
    /\ ePc = "scope"
    /\ eTargets = {}
    /\ \/ /\ eOpt.AddDeps
          /\ eRet' = "GetOrCreate"
          /\ ePc' = "done"
       \/ /\ ePc' = "commit"
          /\ UNCHANGED eRet
    /\ UNCHANGED <<eRepo, eOpt, eTargets, seenDepURI, repoAndDepURIs, eCommitID, eBuild,
                   queryConstraints, eSearches>>
    /\ UNCHANGED notExecVars

\* Lines 87-108: the commit to search.
ExecSelectCommit ==
    /\ ePc = "commit"
    /\ \/ /\ eRet' = "GetBuild"
          /\ ePc' = "done"
          /\ UNCHANGED <<eBuild, eCommitID>>
       \/ \E info \in BuildInfos :
            /\ eBuild' = {info}
            /\ eCommitID' = SearchCommit(info, RequestedCommit(eOpt, eRepo))
            /\ ePc' = "constraints"
            /\ UNCHANGED eRet
    /\ UNCHANGED <<eRepo, eOpt, eTargets, seenDepURI, repoAndDepURIs, queryConstraints,
                   eSearches>>
    /\ UNCHANGED notExecVars

\* Lines 110-123: the constraints are written and the query is made with
\* them (its Search fails or not).
ExecQuery ==
    /\ ePc = "constraints"
    /\ queryConstraints' = Constraints(repoAndDepURIs, eOpt, eCommitID)
    /\ eSearches' = Append(eSearches, queryConstraints')
    /\ eRet' \in {"nil", "Search"}
    /\ ePc' = "done"
    /\ UNCHANGED <<eRepo, eOpt, eTargets, seenDepURI, repoAndDepURIs, eCommitID, eBuild>>
    /\ UNCHANGED notExecVars

ExecNext ==
    \/ ExecListDeps
    \/ ExecAddURI
    \/ ExecAddDeps
    \/ ExecSelectCommit
    \/ ExecQuery

----------------------------------------------------------------------------
(***************************************************************************)
(* Properties of listRepoDependencies.                                     *)
(***************************************************************************)

Returned == pc = "return"
Made(op) == \E i \in 1..Len(calls) : calls[i].op = op

\* The dependency-resolution files the walk has met.
DepFilesFound == {i \in 1..Len(commitFS) : HasSuffix(commitFS[i].path, DepSuffix)}

\* The distinct target tuples of all records of all dependency-resolution
\* files met, nil targets and empty clone URLs left out.
LocalTargets ==
    {t \in Targets :
       /\ t.ToRepoCloneURL # ""
       /\ \E i \in DepFilesFound : \E k \in 1..Len(commitFS[i].deps) :
            commitFS[i].deps[k].Target = {t}}

\* The targets of the remote answer: one per distinct repo URL.
RemoteURLsListed == {deps[i].ToRepo : i \in 1..Len(deps)}

\* C1: once a local dependency-resolution file has been found, no remote call
\* is ever made and a returned set holds local targets only (possibly none);
\* a run that did call the remote found no local file, so no returned set
\* mixes local and remote targets.
C1_LocalPrecedence ==
    /\ DepFilesFound # {} =>
         /\ calls = <<>>
         /\ pc \in {"walk", "return"}
         /\ (Returned /\ err = NoError) =>
              ~ret.isNil /\ ret.targets \subseteq LocalTargets
    /\ calls # <<>> => DepFilesFound = {} /\ LocalTargets = {}

\* C1 witness: a local file was found, it yields no target, and the empty set
\* is returned without error.
C1_Witness ==
    /\ Returned /\ err = NoError
    /\ DepFilesFound # {}
    /\ ~ret.isNil /\ ret.targets = {}

\* C2 (as stated): build data exists but holds no dependency-resolution file;
\* the function returns the empty set, no error, and makes no remote call.
C2_Original ==
    (Returned /\ exists /\ DepFilesFound = {}) =>
        /\ ~ret.isNil /\ ret.targets = {}
        /\ err = NoError
        /\ calls = <<>>

\* C2 (amended): build data exists but holds no dependency-resolution file;
\* the function does not answer locally: it calls GetBuild first and returns
\* the remote outcome, the converted remote list or a nil set with the error.
C2_RemoteFallback ==
    (Returned /\ exists /\ DepFilesFound = {}) =>
        /\ calls # <<>> /\ calls[1].op = "GetBuild"
        /\ IF err = NoError
           THEN /\ Made("ListDependencies")
                /\ ret = Map({RemoteTarget(deps[i]) : i \in 1..Len(deps)})
           ELSE /\ ret.isNil
                /\ err.kind \in {"GetBuild", "ListDependencies", "NoDependencies"}

\* C2 witness: the marker exists, no resolution file was met, and the set
\* returned is the remote's, not empty.
C2_Witness ==
    /\ Returned /\ exists /\ DepFilesFound = {}
    /\ Len(commitFS) > 0
    /\ err = NoError /\ ret.targets # {}

\* C3: on the local path the returned set is exactly the set of distinct
\* target tuples of the records met whose Target is non-nil with a non-empty
\* clone URL.
C3_LocalSetExact ==
    (Returned /\ err = NoError /\ calls = <<>>) =>
        /\ ret = Map(LocalTargets)
        /\ \A t \in Targets :
             t \in ret.targets <=>
               /\ t.ToRepoCloneURL # ""
               /\ \E i \in 1..Len(commitFS) :
                    /\ HasSuffix(commitFS[i].path, DepSuffix)
                    /\ \E k \in 1..Len(commitFS[i].deps) :
                         t \in commitFS[i].deps[k].Target

\* C3 witness: two files each hold one record naming the same tuple, and the
\* set returned on the local path has that one entry.
C3_Witness ==
    /\ Returned /\ err = NoError /\ calls = <<>>
    /\ Len(commitFS) = 2
    /\ \E t \in Targets :
         /\ commitFS[1].deps = <<[Target |-> {t}]>>
         /\ commitFS[2].deps = <<[Target |-> {t}]>>
         /\ ret.targets = {t}

\* C4 (as stated): ListDependencies is asked about the resolved commit, the
\* exact commit if built, else the last successfully built one.
C4_ListsResolvedCommit ==
    \A i \in 1..Len(calls) :
        calls[i].op = "ListDependencies" =>
            /\ commitID # ""
            /\ calls[i].spec.Rev = commitID

\* C5: every remote record becomes a target with only ToRepoCloneURL set, and
\* the returned set has one entry per distinct remote repo URL.
C5_RemoteConversion ==
    (Returned /\ err = NoError /\ Made("ListDependencies")) =>
        /\ ~ret.isNil
        /\ \A t \in ret.targets :
             /\ t.ToRepoCloneURL # ""
             /\ t.ToUnitType = "" /\ t.ToUnit = "" /\ t.ToRevSpec = ""
        /\ {t.ToRepoCloneURL : t \in ret.targets} = RemoteURLsListed
        /\ Cardinality(ret.targets) = Cardinality(RemoteURLsListed)

\* C5 witness: three remote records with distinct URLs, three targets.
C5_Witness ==
    /\ Returned /\ err = NoError /\ Made("ListDependencies")
    /\ Len(deps) = 3 /\ Cardinality(RemoteURLsListed) = 3
    /\ Cardinality(ret.targets) = 3

\* C6: no local resolution file, and GetBuild reports neither an exact build
\* of the commit nor a last successful commit: a nil set and the error naming
\* the repo URI and the commit are returned, and ListDependencies is not called.
C6_Unresolved ==
    (/\ Returned
     /\ DepFilesFound = {}
     /\ \E info \in b : repo.CommitID \notin info.Exact
                        /\ info.LastSuccessfulCommit = {}) =>
        /\ ret.isNil
        /\ err = Error("NoDependencies", uri, repo.CommitID)
        /\ ~Made("ListDependencies")

\* C6 witness: GetBuild reported nothing and the error names uri and commit.
C6_Witness ==
    /\ Returned /\ DepFilesFound = {}
    /\ b = {[Exact |-> {}, LastSuccessfulCommit |-> {}]}
    /\ err.kind = "NoDependencies" /\ err.uri = uri /\ err.commit = "c1"

(***************************************************************************)
(* Properties of defXRefsIndex.                                            *)
(***************************************************************************)

Now == Index(phtable, ready)

\* C7 (as stated): after Build(refs), ReferencesTo(K) is exactly the refs of
\* refs that point at K, ascending by repo, file, start.
C7_BuildThenLookup ==
    (xCall.op = "Build" /\ xCall.err = "nil") =>
        \A key \in AllKeys :
            ReferencesTo(Now, key).refs = SortedRefsTo(xCall.refs, key)

\* The source units that occur in refs.
UnitsOf(refs) == {refs[i].Unit : i \in 1..Len(refs)}

\* C8 (as stated): after Update(refs), the refs of the units in refs are
\* replaced by refs, and lookups restricted to other units are as before.
C8_UpdateReplacesPerUnit ==
    (xCall.op = "Update" /\ xCall.err = "nil") =>
        \A key \in AllKeys :
            LET after == ReferencesTo(Now, key).refs
                prior == ReferencesTo(xCall.before, key).refs
                others == {"a", "b"} \ UnitsOf(xCall.refs)
            IN /\ SelectSeq(after, LAMBDA r : r.Unit \in UnitsOf(xCall.refs))
                    = SortedRefsTo(xCall.refs, key)
               /\ SelectSeq(after, LAMBDA r : r.Unit \in others)
                    = SelectSeq(prior, LAMBDA r : r.Unit \in others)

\* C9: an Update that repeats the Update before it (same refs) leaves every
\* ReferencesTo result as the first one left it.
C9_UpdateIdempotent ==
    (xCall.op = "Update" /\ xRepeat) =>
        \A key \in AllKeys :
            ReferencesTo(Now, key) = ReferencesTo(xCall.before, key)

\* C9 witness: Update called twice in a row with the same, non-empty refs.
C9_Witness ==
    /\ xCall.op = "Update" /\ xRepeat
    /\ Len(xCall.refs) = 2

\* Two refs of one source unit overlap in one file.
Overlap(refs) ==
    \E i \in 1..Len(refs) : \E k \in 1..Len(refs) :
        /\ i # k
        /\ refs[i].Unit = refs[k].Unit /\ refs[i].File = refs[k].File
        /\ refs[i].Start < refs[k].End /\ refs[k].Start < refs[i].End

\* A ref names a Def that does not exist.
UnknownDef(refs) == \E i \in 1..Len(refs) : refs[i].DefKey \notin DefKeys

\* C10 (as stated): Build and Update fail with an integrity error on a ref to
\* an unknown Def or on overlapping refs of one unit, and a failed Update
\* leaves every lookup as before or the index not ready.
C10_IntegrityError ==
    (xCall.op \in {"Build", "Update"}
     /\ (Overlap(xCall.refs) \/ UnknownDef(xCall.refs))) =>
        /\ xCall.err = "integrity"
        /\ xCall.op = "Update" =>
             \/ ~ready
             \/ \A key \in AllKeys :
                  ReferencesTo(Now, key) = ReferencesTo(xCall.before, key)

\* C11 (as stated): the ready flag gates lookups: before the first successful
\* Build the flag is false and a lookup is refused with no refs; after a
\* successful Build or Update the flag is true and lookups succeed.
C11_ReadyGatesLookups ==
    /\ xCall.op = "none" =>
         /\ ~ready
         /\ \A key \in AllKeys :
              ReferencesTo(Now, key) = [notReady |-> TRUE, refs |-> <<>>]
    /\ (xCall.op \in {"Build", "Update"} /\ xCall.err = "nil") =>
         /\ ready
         /\ \A key \in AllKeys : ~ReferencesTo(Now, key).notReady


(***************************************************************************)
(* Properties of the delta subcommands.                                    *)
(***************************************************************************)

\* `delta defs` has run to its end and no call failed.
DefsPrinted == dCmd = "defs" /\ dPc = "done" /\ dFail = "nil"

\* The class of an identity, from the Defs of the two commits.
ClassOfKey(k) ==
    CASE dBase[k] = dHead[k] -> "Same"
      [] dBase[k] = "absent" /\ dHead[k] # "absent" -> "Added"
      [] dBase[k] # "absent" /\ dHead[k] = "absent" -> "Deleted"
      [] OTHER -> "Changed"

KeysOfClass(class) == {k \in DefIds : ClassOfKey(k) = class}

\* The Def a line of `delta defs` names.
KeyOfLine(l) == IF Len(l.text) = 1 THEN l.text[1] ELSE l.text[2]

LinesOfKind(out, kind) == SelectSeq(out, LAMBDA l : l.kind = kind)

DefLinesAbout(k) ==
    {i \in 1..Len(dOut) : dOut[i].kind = "def" /\ KeyOfLine(dOut[i]) = k}

\* C12 (as stated): an identity only in Head is reported as Added, one only in
\* Base as Deleted, one in both with differing signature as Changed, each
\* under its class's sign, and an identical one is not reported; a rename is
\* one Deleted plus one Added.
C12_ReportedByClass ==
    DefsPrinted =>
        \A k \in DefIds :
            IF ClassOfKey(k) = "Same"
            THEN DefLinesAbout(k) = {}
            ELSE /\ Cardinality(DefLinesAbout(k)) = 1
                 /\ \A i \in DefLinesAbout(k) : dOut[i].glyph = SignOf(ClassOfKey(k))

\* The Def whose name the line of a DeltaDef shows.
ShownDef(dd) == IF Added(dd) THEN TheDef(dd.Head) ELSE TheDef(dd.Base)

\* C13: every DeltaDef of the answer is exactly one of Added, Changed and
\* Deleted and has a pointer set, and `delta defs` prints exactly one line
\* per DeltaDef, in list order.
C13_OneLinePerDeltaDef ==
    DefsPrinted =>
        LET dds == dDefs.Defs
            ls == LinesOfKind(dOut, "def")
        IN /\ \A i \in 1..Len(dds) :
                /\ Cardinality({c \in {1, 2, 3} :
                       \/ c = 1 /\ Added(dds[i])
                       \/ c = 2 /\ Changed(dds[i])
                       \/ c = 3 /\ Deleted(dds[i])}) = 1
                /\ ~(dds[i].Base = {} /\ dds[i].Head = {})
           /\ Len(ls) = Len(dds)
           /\ \A i \in 1..Len(ls) : ls[i].text = fmtDeltaDefName(ShownDef(dds[i]))

\* C13's case: three DeltaDefs, one of each class, have been printed.
C13_Witness ==
    /\ DefsPrinted
    /\ Len(dDefs.Defs) = 3
    /\ \A class \in {"Added", "Changed", "Deleted"} : KeysOfClass(class) # {}

C15_ErrorAborts ==
    /\ dFail # "nil" => dPc = "done" /\ dErr = dFail /\ dOut = <<>>
    /\ dErr # "nil" => dErr = dFail

\* C15's case: `delta refs` whose ListAffectedDependents call failed.
C15_Witness ==
    /\ dCmd = "refs"
    /\ dPc = "done"
    /\ dFail = "Deltas.List"

\* The files of a def's reference sites, each at its first occurrence.
RECURSIVE FirstOccurrences(_, _)
FirstOccurrences(files, n) ==
    IF n = 0 THEN <<>>
    ELSE FirstOccurrences(files, n - 1)
         \o (IF \E j \in 1..(n - 1) : files[j] = files[n] THEN <<>> ELSE <<files[n]>>)

\* The lines printed for the repository's defs: all but the header and the
\* closing blank line.
RepoBody == SubSeq(dOut, 2, Len(dOut) - 1)

\* What `delta refs` is to print for the defs from the i-th on.
RECURSIVE ExpectedFrom(_, _)
ExpectedFrom(drs, i) ==
    IF i > Len(drs) THEN <<>>
    ELSE <<<<"def", drs[i].Def.Name>>>>
         \o [j \in 1..Len(FirstOccurrences(drs[i].Refs, Len(drs[i].Refs))) |->
                <<"file", FirstOccurrences(drs[i].Refs, Len(drs[i].Refs))[j]>>]
         \o ExpectedFrom(drs, i + 1)

Shown(l) == IF l.kind = "file" THEN <<"file", l.text[1]>> ELSE <<"def", KeyOfLine(l)>>

\* C16: in `delta refs`, under each affected def each referencing file is
\* listed once, at its first occurrence, and a file is listed again under
\* another def that it references.
C16_FilesOncePerDef ==
    (dCmd = "refs" /\ dPc = "done" /\ dFail = "nil" /\ dRepos # <<>>) =>
        [i \in 1..Len(RepoBody) |-> Shown(RepoBody[i])] = ExpectedFrom(dRepos[1].DefRefs, 1)

\* C16's case: file f has two sites under the first def and is listed once
\* there, and again under the second def.
C16_Witness ==
    /\ dCmd = "refs" /\ dPc = "done" /\ dFail = "nil" /\ dRepos # <<>>
    /\ Len(dRepos[1].DefRefs) = 2
    /\ dRepos[1].DefRefs[1].Refs = <<"f", "f">>
    /\ dRepos[1].DefRefs[2].Refs = <<"g", "f">>
    /\ Cardinality({i \in 1..Len(dOut) : dOut[i].kind = "file" /\ dOut[i].text = <<"f">>}) = 2

(***************************************************************************)
(* Properties of query.                                                    *)
(***************************************************************************)

Has(to, kind, i, j) == \E n \in 1..Len(qOut) : qOut[n] = Event(to, kind, i, j)

FetchFailed(i, f) == <<i, f>> \in qFailed

\* The loop does not pass over the i-th def as one it has seen.
Processed(i) == \A h \in 1..(i - 1) : SeenKey(qDefs[h]) # SeenKey(qDefs[i])

\* C17: a fetch that fails for one item (a def's source, its authors, its
\* ref list, one ref's snippet) is logged and only that item is left out:
\* the later refs of the def and the later defs are still printed and query
\* returns nil; query returns an error only when Search fails.
C17_ItemFailureSkipsItem ==
    qPc = "done" =>
        /\ qRet = "Search" <=> FetchFailed(0, <<"search", 0>>)
        /\ qRet = "Search" => qOut = <<>>
        /\ qRet # "Search" =>
             /\ qRet = "nil"
             /\ \A i \in 1..Len(qDefs) : Processed(i) =>
                  /\ Has("fmt", "title", i, 0) \/ Has("fmt", "title src", i, 0)
                  /\ qOpt.Def =>
                       /\ Has("fmt", "def source", i, 0) <=> ~FetchFailed(i, <<"def", 0>>)
                       /\ Has("log", "Error fetching def", i, 0) <=> FetchFailed(i, <<"def", 0>>)
                  /\ qOpt.Authors =>
                       /\ Has("fmt", "author", i, 0) <=> ~FetchFailed(i, <<"authors", 0>>)
                       /\ Has("log", "Error listing authors", i, 0)
                            <=> FetchFailed(i, <<"authors", 0>>)
                  /\ (qOpt.Refs > 0 /\ FetchFailed(i, <<"refs", 0>>)) =>
                       /\ Has("log", "Error listing refs", i, 0)
                       /\ \A j \in 1..qOpt.Refs : ~Has("fmt", "Ref @", i, j) /\ ~Has("fmt", "    @", i, j)
                  /\ (qOpt.Refs > 0 /\ ~FetchFailed(i, <<"refs", 0>>)) =>
                       \A j \in 1..qOpt.Refs :
                           /\ Has("fmt", "Ref @", i, j) \/ Has("fmt", "    @", i, j)
                           /\ ~qOpt.Terse =>
                                /\ Has("fmt", "snippet", i, j) <=> ~FetchFailed(i, Snippet(j))
                                /\ Has("log", "Error fetching example", i, j)
                                     <=> FetchFailed(i, Snippet(j))

\* C17's case: the first def's source and the snippet of its first ref could
\* not be fetched; its authors, its second ref and the second def are printed.
C17_Witness ==
    /\ qPc = "done"
    /\ qRet = "nil"
    /\ Len(qDefs) = 2
    /\ Processed(2)
    /\ FetchFailed(1, <<"def", 0>>)
    /\ FetchFailed(1, Snippet(1))
    /\ Has("fmt", "author", 1, 0)
    /\ Has("fmt", "snippet", 1, 2)
    /\ Has("fmt", "title", 2, 0)

(***************************************************************************)
(* Properties of the completion candidates.                                *)
(***************************************************************************)

\* The collector is between its Lock and its Unlock; the Completer is
\* between its Lock and its return.
CollectorInside == colPc \in {"append", "unlock"}
CompleterInside == cplPc = "read"

\* C18: comps is accessed only under compsMu: the collector appends and the
\* Completer reads only while holding the mutex, so no read overlaps an
\* append, and no step of a sender (the main goroutine, a worker) changes
\* comps.
C18_CompsUnderMutex ==
    /\ [](/\ CollectorInside => compsMu = "collector"
          /\ CompleterInside => compsMu = "completer"
          /\ ~(CollectorInside /\ CompleterInside))
    /\ [][/\ comps' # comps => (colPc = "append" /\ compsMu = "collector")
          /\ (sPc' # sPc \/ sQueue' # sQueue) => comps' = comps]_vars

\* C18's case: the Completer is in the middle of its loop over comps while
\* the collector waits in Lock with a value a worker has sent.
C18_Witness ==
    /\ CompleterInside
    /\ cplK <= Len(comps)
    /\ colPc = "lock"
    /\ comp \notin Range(MainSends)

IsPrefix(a, c) == Len(a) <= Len(c) /\ SubSeq(c, 1, Len(a)) = a

\* C20: under fair scheduling every send on compc completes and every value
\* received is appended to comps; comps only grows at its end, and the
\* matches a Completer call returns for a query start with the matches of
\* the call before it for the same query.
C20_EveryCandidateArrives ==
    /\ \A s \in Senders : \A n \in 1..(Len(MainSends) + 2) :
           (Sending(s) /\ Len(sQueue[s]) = n) ~> ~(Sending(s) /\ Len(sQueue[s]) = n)
    /\ (comps # recvd) ~> (comps = recvd)
    /\ [][IsPrefix(comps, comps')]_vars
    /\ [][\A q \in CompQueries : IsPrefix(cplLast[q], cplLast'[q])]_vars

\* C20's case: the candidates of the main goroutine and of both workers are
\* all in comps, and a Completer call has returned two of them.
C20_Witness ==
    /\ \A s \in Senders : ~Sending(s)
    /\ \A t \in CompTargets : sPc[t] = "done"
    /\ Len(comps) = Len(MainSends) + 3
    /\ comps = recvd
    /\ Len(cplLast[<<"F", "o">>]) = 2

(***************************************************************************)
(* Properties of the interactive shell.                                    *)
(***************************************************************************)

\* C19 (as stated): a SIGINT makes Execute return nil and aborts the read
\* loop: once it has arrived no further line is read and no further query is
\* issued, and a query in flight at that moment has no effect on the value
\* Execute returns.
C19_InterruptAborts ==
    intr.arrived =>
        /\ ~intr.lineAfter
        /\ history = intr.history
        /\ mPc # "select" => mRet = "nil"

(***************************************************************************)
(* Properties of the scope and the commit of the search.                   *)
(***************************************************************************)

\* GetBuild has answered.
BuildKnown == eBuild # {}
BuildAnswer == CHOOSE info \in eBuild : TRUE

\* The commit asked for: --commit, else the current repo's commit.
Wanted == IF eOpt.CommitID # "" THEN eOpt.CommitID ELSE eRepo.CommitID

\* C21: the commit searched is the commit asked for (--commit, else the
\* current repo's) when the remote has an exact build of it, else the last
\* successful commit when the remote reports one, else the commit asked for;
\* every Search is made on that commit, and when GetBuild fails Execute
\* returns its error and no Search has been made.
C21_CommitSearched ==
    /\ BuildKnown =>
         /\ BuildAnswer.Exact = {Wanted} => eCommitID = Wanted
         /\ (BuildAnswer.Exact # {Wanted} /\ BuildAnswer.LastSuccessfulCommit # {})
              => eCommitID \in BuildAnswer.LastSuccessfulCommit
         /\ (BuildAnswer.Exact # {Wanted} /\ BuildAnswer.LastSuccessfulCommit = {})
              => eCommitID = Wanted
    /\ \A n \in 1..Len(eSearches) : \E i \in 1..Len(eSearches[n]) :
         eSearches[n][i] = [repo |-> eOpt.RepoURI, commit |-> {eCommitID}]
    /\ eRet = "GetBuild" => eSearches = <<>> /\ ePc = "done"
    /\ (ePc = "done" /\ ~BuildKnown) => eSearches = <<>>

\* C21's case: no --commit, the current repo's commit c1 is not built, the
\* remote's last successful commit c2 is searched.
C21_Witness ==
    /\ ePc = "done"
    /\ eOpt.CommitID = ""
    /\ BuildKnown
    /\ BuildAnswer = [Exact |-> {"c2"}, LastSuccessfulCommit |-> {"c2"}]
    /\ eCommitID = "c2"
    /\ Len(eSearches) = 1

\* The loop over depTargets is over.
ScopeBuilt == ePc \in {"commit", "constraints", "done"} /\ repoAndDepURIs # <<>> /\ eTargets = {}

\* C24 (as stated): the scope starts with the queried repo's URI and holds
\* every URI once, whatever the targets, and exactly one word of the
\* constraints, the queried repo's, carries @commit.
C24_ScopeHasNoDuplicates ==
    /\ ScopeBuilt =>
         /\ repoAndDepURIs[1] = eOpt.RepoURI
         /\ \A i, j \in 1..Len(repoAndDepURIs) :
              repoAndDepURIs[i] = repoAndDepURIs[j] => i = j
    /\ \A n \in 1..Len(eSearches) :
         /\ Cardinality({i \in 1..Len(eSearches[n]) : eSearches[n][i].commit # {}}) = 1
         /\ \A i \in 1..Len(eSearches[n]) :
              eSearches[n][i].commit # {} <=> eSearches[n][i].repo = eOpt.RepoURI

(***************************************************************************)
(* Further properties of listRepoDependencies.                             *)
(***************************************************************************)

\* C22 (as stated): for every caller state, a nil repo and a repo of another
\* URI included, the function ends with a target set or an error; without
\* the local path it goes on to the remote lookup and never dereferences a
\* nil repo.
C22_EndsWithSetOrError ==
    /\ pc # "panic"
    /\ Returned => (ret.isNil <=> err # NoError)
    /\ (Returned /\ ~TryLocal(repo, uri)) => Made("GetBuild")

\* The dependency-resolution files met that could not be opened or decoded.
FailedFiles ==
    {i \in 1..Len(commitFS) :
       /\ commitFS[i].path.name = DepSuffix
       /\ ~(commitFS[i].opens /\ commitFS[i].decodes)}

\* C23: when a local dependency-resolution file cannot be opened or decoded
\* the function returns a nil set with that error: not the targets collected
\* so far, and without a remote call.
C23_LocalFileErrorIsFinal ==
    \A i \in FailedFiles :
        /\ i = Len(commitFS)
        /\ Returned
        /\ ret = NilMap
        /\ err = Error(IF commitFS[i].opens THEN "Decode" ELSE "Open", "", "")
        /\ calls = <<>>

\* C23's case: a first file gave a target, the second does not decode.
C23_Witness ==
    /\ Len(commitFS) = 2
    /\ depTargets # {}
    /\ FailedFiles = {2}
    /\ commitFS[2].opens
    /\ Returned

(***************************************************************************)
(* A further property of query.                                            *)
(***************************************************************************)

\* The (Repo, UnitType, Unit, Path) tuple of a def.
TupleOf(def) == <<def.Repo, def.UnitType, def.Unit, def.Path>>

Printed(i) == Has("fmt", "title", i, 0) \/ Has("fmt", "title src", i, 0)

\* C25 (as stated): a def of the result is skipped if and only if an earlier
\* def of the result has the same (Repo, UnitType, Unit, Path) tuple.
C25_OncePerTuple ==
    (qPc = "done" /\ qRet = "nil") =>
        \A i \in 1..Len(qDefs) :
            ~Printed(i) <=> \E h \in 1..(i - 1) : TupleOf(qDefs[h]) = TupleOf(qDefs[i])

----------------------------------------------------------------------------
Init == DepsInit /\ IdxInit /\ DeltaInit /\ QueryInit /\ CompInit /\ ShellInit /\ ExecInit

\* The resolver alone, and the index alone (no resolution under way).
SpecDeps == Init /\ [][DepsNext]_vars

InitIndex == Init /\ repo = NilRepo /\ uri = "r1"

SpecIndex == InitIndex /\ [][IdxNext]_vars

\* The delta subcommands alone.
SpecDelta == InitIndex /\ [][DeltaNext]_vars

\* query alone.
SpecQuery == InitIndex /\ [][QueryNext]_vars

\* The completion candidates alone, under any scheduling and under a fair
\* one: every goroutine that can take a step takes one in the end, and a
\* goroutine waiting in Lock gets the mutex in the end.
SpecComp == InitIndex /\ [][CompNext]_vars

SpecCompFair ==
    /\ SpecComp
    /\ WF_vars(CollectorRecv)
    /\ SF_vars(CollectorLock)
    /\ WF_vars(CollectorAppend)
    /\ WF_vars(CollectorUnlock)
    /\ WF_vars(CompleterRead)
    /\ WF_vars(CompleterReturn)

\* The interactive shell alone.
SpecShell == InitIndex /\ [][ShellNext]_vars

\* The start of Execute alone.
SpecExec == InitIndex /\ [][ExecNext]_vars

Next == DepsNext \/ IdxNext \/ DeltaNext \/ QueryNext \/ CompNext \/ ShellNext \/ ExecNext

Spec == Init /\ [][Next]_vars

====
